---------------------------- MODULE Spec2Model ----------------------------
(***************************************************************************)
(* A model of lorenz.go: the Lorenz integrator with its bounded trail      *)
(* (NewLorenzSystem, Step, GetTrail), the projector (Project3DTo2D), the   *)
(* rasterizer (drawLine, drawCircle, drawText, drawChar), the frame        *)
(* builder (CreateFrame) and the animation driver (CreateLorenzAnimation). *)
(*                                                                         *)
(* Representation choices                                                  *)
(*  - A Go slice is a header [arr, off, len, cap] into a backing array     *)
(*    held in mem; append and reslicing follow the Go semantics, so that   *)
(*    aliasing between a GetTrail result and the live trail is visible.    *)
(*  - A float64 is an IEEE 754 binary64 value [s, e, m]: the number        *)
(*    (-1)^s * m * 2^e with m a mantissa of at most 53 bits held in four   *)
(*    limbs of 14 bits, least significant first.  FAdd, FSub, FMul and     *)
(*    FDiv round to nearest, ties to even, one rounding per operation (no  *)
(*    fused multiply-add, as on amd64).                                    *)
(*  - A Go int (64 bits, two's complement) that comes out of a float       *)
(*    conversion or flows through drawLine or drawCircle is held in five   *)
(*    limbs of 14 bits, so that its arithmetic wraps exactly as the        *)
(*    machine's does.  int(f) of a float64 outside the range of int is     *)
(*    what the amd64 build gives, the smallest int.                        *)
(*  - An image.Paletted is [w, h, pix]; pix is Pix with stride w: the      *)
(*    palette index of (x, y) is pix[y * w + x + 1].  The palette itself   *)
(*    (colours) is not modelled.                                          *)
(*  - A string is the sequence of its code points; its UTF-8 encoding      *)
(*    decides the byte offsets a range loop yields.                        *)
(***************************************************************************)
EXTENDS Integers, Sequences, FiniteSets, TLC

VARIABLES
    lorenz,     \* the LorenzSystem, or the one CreateLorenzAnimation creates
    mem,        \* backing arrays of the slices: a sequence of arrays of Point3D
    generated,  \* history: the points returned by Step, in order
    snap,       \* a slice header a caller obtained from GetTrail (or NoSlice)
    snapVals,   \* history: what snap held when GetTrail returned it
    img,        \* the image the last CreateFrame / raster call produced
    call,       \* the last call made: [op, args]
    base,       \* the image the raster calls draw on
    line,       \* drawLine's locals while its loop runs
    glyphs,     \* the drawChar calls the last drawText made: <<x, y, char>>
    writes,     \* the SetColorIndex calls the last drawCircle / drawText made
    pc,         \* CreateLorenzAnimation: position in the function
    i,          \* CreateLorenzAnimation: the inner loop counter
    frame,      \* CreateLorenzAnimation: the frame loop counter
    params,     \* CreateLorenzAnimation: [width, height, frames]
    images,     \* CreateLorenzAnimation: the image list
    delays,     \* CreateLorenzAnimation: the delay list
    seg         \* CreateFrame's trail loop: [len, idx, color] of a segment

vars == <<lorenz, mem, generated, snap, snapVals, img, call, base, line,
          glyphs, writes, pc, i, frame, params, images, delays, seg>>

sysVars == <<lorenz, mem, generated>>
snapVars == <<snap, snapVals>>
rasterVars == <<base, line, glyphs, writes>>
animVars == <<pc, i, frame, params, images, delays>>
segVars == <<seg>>

-----------------------------------------------------------------------------
(* Bounds of the model *)

MaxTrail == 3
MaxSteps == 7
MaxCoord == 5
MaxRadius == 3
MaxTextLen == 2
MaxFrames == 101
MaxSegTrail == 260

Min(a, b) == IF a < b THEN a ELSE b
Max(a, b) == IF a > b THEN a ELSE b

-----------------------------------------------------------------------------
(* Numbers wider than the integers of the model are held in limbs of 14     *)
(* bits, least significant first.                                          *)

\* the radix of the limbs, and the powers of two up to it
LimbBits == 14
Base == 16384
Pow2(n) ==
    <<1, 2, 4, 8, 16, 32, 64, 128, 256, 512, 1024, 2048, 4096, 8192, 16384>>[n + 1]

-----------------------------------------------------------------------------
(* Go int: 64 bits, two's complement.  An int v is <<v0, v1, v2, v3, v4>>   *)
(* with v = v0 + v1 * 2^14 + v2 * 2^28 + v3 * 2^42 + v4 * 2^56, v0 .. v3 in *)
(* 0 .. 2^14 - 1 and v4, the eight bits on top with the sign, in            *)
(* -128 .. 127.  Sums, differences and negations wrap modulo 2^64.         *)

\* the top limb of a sum or a difference: what 64 bits keep of it
TopWrap(t) == ((t + 128) % 256) - 128

\* the int n, for an integer n of the model
I64(n) ==
    <<n % Base, (n \div Base) % Base, (n \div (Base * Base)) % Base,
      IF n < 0 THEN Base - 1 ELSE 0, IF n < 0 THEN -1 ELSE 0>>

\* the integer of the model an int is, for an int within their range
Val64(a) ==
    a[1] + Base * a[2] + (Base * Base) * (IF a[5] < 0 THEN a[3] - Base ELSE a[3])

Zero64 == I64(0)
MinInt64 == <<0, 0, 0, 0, -128>>

Add64(a, b) ==
    LET c1 == a[1] + b[1]
        c2 == a[2] + b[2] + (c1 \div Base)
        c3 == a[3] + b[3] + (c2 \div Base)
        c4 == a[4] + b[4] + (c3 \div Base)
    IN  <<c1 % Base, c2 % Base, c3 % Base, c4 % Base,
          TopWrap(a[5] + b[5] + (c4 \div Base))>>

Sub64(a, b) ==
    LET c1 == a[1] - b[1]
        c2 == a[2] - b[2] + (c1 \div Base)
        c3 == a[3] - b[3] + (c2 \div Base)
        c4 == a[4] - b[4] + (c3 \div Base)
    IN  <<c1 % Base, c2 % Base, c3 % Base, c4 % Base,
          TopWrap(a[5] - b[5] + (c4 \div Base))>>

Neg64(a) == Sub64(Zero64, a)

\* the signed order
Lt64(a, b) ==
    \/ a[5] < b[5]
    \/ a[5] = b[5] /\ a[4] < b[4]
    \/ a[5] = b[5] /\ a[4] = b[4] /\ a[3] < b[3]
    \/ a[5] = b[5] /\ a[4] = b[4] /\ a[3] = b[3] /\ a[2] < b[2]
    \/ a[5] = b[5] /\ a[4] = b[4] /\ a[3] = b[3] /\ a[2] = b[2] /\ a[1] < b[1]

\* abs, lorenz.go:298-303
abs(x) == IF Lt64(x, Zero64) THEN Neg64(x) ELSE x

-----------------------------------------------------------------------------
(* image.Paletted: Rect is (0,0)-(w,h), Stride is w, Pix is pix *)

\* image.NewPaletted(image.Rect(0, 0, width, height), palette): all index 0
NewPaletted(w, h) == [w |-> w, h |-> h, pix |-> [k \in 1..(w * h) |-> 0]]

\* the guard every primitive puts before SetColorIndex, and the test
\* SetColorIndex itself makes: (x, y) inside the rectangle
InBounds(im, x, y) == x >= 0 /\ x < im.w /\ y >= 0 /\ y < im.h

\* img.SetColorIndex(x, y, index): a no-op outside the rectangle
SetColorIndex(im, x, y, c) ==
    IF InBounds(im, x, y) THEN [im EXCEPT !.pix[y * im.w + x + 1] = c] ELSE im

\* img.ColorIndexAt(x, y) for a position inside the rectangle
ColorIndexAt(im, x, y) == im.pix[y * im.w + x + 1]

\* SetColorIndex(x, y, c) for the positions ws[lo], ..., ws[hi], in order
\* (split in halves to keep the evaluation shallow; the first half is
\* complete before the second starts)
RECURSIVE ApplyWrites(_, _, _, _, _)
ApplyWrites(im, ws, c, lo, hi) ==
    IF lo > hi THEN im
    ELSE IF lo = hi THEN SetColorIndex(im, ws[lo][1], ws[lo][2], c)
    ELSE LET mid == (lo + hi) \div 2
             first == ApplyWrites(im, ws, c, lo, mid)
         IN  IF first.w = im.w THEN ApplyWrites(first, ws, c, mid + 1, hi) ELSE first

-----------------------------------------------------------------------------
(* drawLine, lorenz.go:151-188.  The locals are Go ints.                   *)

\* lines 152-167: dx, dy, sx, sy, err before the loop
LineInit(x1, y1, x2, y2) ==
    LET dx == abs(Sub64(x2, x1))
        dy == abs(Sub64(y2, y1))
    IN  [x1 |-> x1, y1 |-> y1, x2 |-> x2, y2 |-> y2, dx |-> dx, dy |-> dy,
         sx |-> IF Lt64(x1, x2) THEN I64(1) ELSE I64(-1),
         sy |-> IF Lt64(y1, y2) THEN I64(1) ELSE I64(-1),
         err |-> Sub64(dx, dy)]

\* x >= 0 && x < bounds.Max.X && y >= 0 && y < bounds.Max.Y on ints
InBounds64(im, x, y) ==
    /\ ~Lt64(x, Zero64) /\ Lt64(x, I64(im.w))
    /\ ~Lt64(y, Zero64) /\ Lt64(y, I64(im.h))

\* line 170: the clipping test on a position
LineInBounds(im, x, y) == InBounds64(im, x, y)

\* lines 170-172: the clipped write of the current position
LineWrite(im, st, c) ==
    IF LineInBounds(im, st.x1, st.y1)
    THEN SetColorIndex(im, Val64(st.x1), Val64(st.y1), c)
    ELSE im

\* line 174: the loop's exit test
LineAtEnd(st) == st.x1 = st.x2 /\ st.y1 = st.y2

\* lines 178-186: one error-term update
LineAdvance(st) ==
    LET e2 == Add64(st.err, st.err)
        s1 == IF Lt64(Neg64(st.dy), e2)
              THEN [st EXCEPT !.err = Sub64(st.err, st.dy), !.x1 = Add64(st.x1, st.sx)]
              ELSE st
    IN  IF Lt64(e2, st.dx)
        THEN [s1 EXCEPT !.err = Add64(s1.err, st.dx), !.y1 = Add64(s1.y1, st.sy)]
        ELSE s1

\* lines 169-187: the positions the loop visits, up to its break
RECURSIVE LinePath(_)
LinePath(st) ==
    IF LineAtEnd(st) THEN <<(<<st.x1, st.y1>>)>>
    ELSE <<(<<st.x1, st.y1>>)>> \o LinePath(LineAdvance(st))

\* the positions among them that pass the clipping test, as pixel positions
LineWrites(im, path) ==
    LET in == SelectSeq(path, LAMBDA p : LineInBounds(im, p[1], p[2]))
    IN  [k \in 1..Len(in) |-> <<Val64(in[k][1]), Val64(in[k][2])>>]

drawLine(im, x1, y1, x2, y2, c) ==
    LET ws == LineWrites(im, LinePath(LineInit(x1, y1, x2, y2)))
    IN  ApplyWrites(im, ws, c, 1, Len(ws))

-----------------------------------------------------------------------------
(* drawCircle, lorenz.go:191-202 *)

\* the (x, y) offsets in the order the two loops of lines 192-193 visit them
CircleOffsets(r) ==
    [k \in 1..((2 * r + 1) * (2 * r + 1)) |->
        <<((k - 1) % (2 * r + 1)) - r, ((k - 1) \div (2 * r + 1)) - r>>]

\* Mutant of CircleWrites: the disc test is strict (< for <=)
CircleWritesOpen(im, cx, cy, r) ==
    LET in == SelectSeq(CircleOffsets(r),
                        LAMBDA o : /\ o[1] * o[1] + o[2] * o[2] < r * r
                                   /\ InBounds64(im, Add64(cx, I64(o[1])),
                                                 Add64(cy, I64(o[2]))))
    IN  [k \in 1..Len(in) |-> <<Val64(Add64(cx, I64(in[k][1]))),
                                Val64(Add64(cy, I64(in[k][2])))>>]

\* the positions drawCircle hands to SetColorIndex, in order (lines 194-198)
CircleWrites(im, cx, cy, r) ==
    LET in == SelectSeq(CircleOffsets(r),
                        LAMBDA o : /\ o[1] * o[1] + o[2] * o[2] <= r * r
                                   /\ InBounds64(im, Add64(cx, I64(o[1])),
                                                 Add64(cy, I64(o[2]))))
    IN  [k \in 1..Len(in) |-> <<Val64(Add64(cx, I64(in[k][1]))),
                                Val64(Add64(cy, I64(in[k][2])))>>]

drawCircle(im, cx, cy, r, c) ==
    LET ws == CircleWrites(im, cx, cy, r)
    IN  ApplyWrites(im, ws, c, 1, Len(ws))

-----------------------------------------------------------------------------
(* drawChar and drawText, lorenz.go:205-295 *)

\* lines 217-283: the 3x5 bitmap of a character (rows top to bottom)
Pattern(char) ==
    LET T == TRUE
        F == FALSE
    IN  CASE char = 76  -> <<(<<T, F, F>>), <<T, F, F>>, <<T, F, F>>, <<T, F, F>>, <<T, T, T>>>>
          [] char = 111 -> <<(<<F, T, F>>), <<T, F, T>>, <<T, F, T>>, <<T, F, T>>, <<F, T, F>>>>
          [] char = 114 -> <<(<<F, F, F>>), <<T, F, F>>, <<T, T, F>>, <<T, F, F>>, <<T, F, F>>>>
          [] char = 101 -> <<(<<F, T, F>>), <<T, F, T>>, <<T, T, T>>, <<T, F, F>>, <<F, T, T>>>>
          [] char = 110 -> <<(<<F, F, F>>), <<T, T, F>>, <<T, F, T>>, <<T, F, T>>, <<T, F, T>>>>
          [] char = 122 -> <<(<<F, F, F>>), <<T, T, T>>, <<F, F, T>>, <<F, T, F>>, <<T, T, T>>>>
          [] char = 32  -> <<(<<F, F, F>>), <<F, F, F>>, <<F, F, F>>, <<F, F, F>>, <<F, F, F>>>>
          [] OTHER      -> <<(<<F, F, F>>), <<F, F, F>>, <<F, T, F>>, <<F, F, F>>, <<F, F, F>>>>

\* the characters the switch of lines 217-283 has a case for: L o r e n z ' '
KnownChars == {76, 111, 114, 101, 110, 122, 32}

\* the <<col, row>> cells in the order the loops of lines 285-286 visit them
PatternCells == [k \in 1..15 |-> <<(k - 1) % 3, (k - 1) \div 3>>]

\* lines 285-294: the positions drawChar hands to SetColorIndex, in order
CharWrites(im, x, y, char) ==
    LET pattern == Pattern(char)
        in == SelectSeq(PatternCells,
                        LAMBDA q : /\ pattern[q[2] + 1][q[1] + 1]
                                   /\ InBounds(im, x + q[1], y + q[2]))
    IN  [k \in 1..Len(in) |-> <<x + in[k][1], y + in[k][2]>>]

drawChar(im, x, y, char, c) ==
    LET ws == CharWrites(im, x, y, char)
    IN  ApplyWrites(im, ws, c, 1, Len(ws))

\* the number of bytes of a code point's UTF-8 encoding
UTF8Len(r) == IF r < 128 THEN 1 ELSE IF r < 2048 THEN 2 ELSE IF r < 65536 THEN 3 ELSE 4

\* `for i, char := range text`: i is the byte offset of the k-th character
RECURSIVE ByteOffset(_, _)
ByteOffset(text, k) ==
    IF k <= 1 THEN 0 ELSE ByteOffset(text, k - 1) + UTF8Len(text[k - 1])

\* lines 207-209: the drawChar calls drawText makes, <<x, y, char>> each
GlyphCalls(x, y, text) ==
    [k \in 1..Len(text) |-> <<x + ByteOffset(text, k) * 6, y, text[k]>>]

\* the calls lo..hi of them, in order (split in halves to keep the
\* evaluation shallow; the first half is complete before the second starts)
RECURSIVE DrawGlyphs(_, _, _, _, _)
DrawGlyphs(im, gs, c, lo, hi) ==
    IF lo > hi THEN im
    ELSE IF lo = hi THEN drawChar(im, gs[lo][1], gs[lo][2], gs[lo][3], c)
    ELSE LET mid == (lo + hi) \div 2
             first == DrawGlyphs(im, gs, c, lo, mid)
         IN  IF first.w = im.w THEN DrawGlyphs(first, gs, c, mid + 1, hi) ELSE first

drawText(im, x, y, text, c) ==
    DrawGlyphs(im, GlyphCalls(x, y, text), c, 1, Len(text))

\* the SetColorIndex calls of a whole drawText: those of its glyphs, in order
RECURSIVE TextWrites(_, _, _, _)
TextWrites(im, gs, lo, hi) ==
    IF lo > hi THEN <<>>
    ELSE IF lo = hi THEN CharWrites(im, gs[lo][1], gs[lo][2], gs[lo][3])
    ELSE TextWrites(im, gs, lo, (lo + hi) \div 2)
         \o TextWrites(im, gs, ((lo + hi) \div 2) + 1, hi)

-----------------------------------------------------------------------------
(* float64: IEEE 754 binary64, round to nearest even *)

\* binary64: 53 bits of mantissa, exponents of the mantissa's unit from
\* MinExp (subnormals and the smallest normals) to MaxExp
MantBits == 53
MinExp == -1074
MaxExp == 971
NonFinite == 972

ZeroMant == <<0, 0, 0, 0>>
PosZero == [s |-> 0, e |-> MinExp, m |-> ZeroMant]
Inf(s) == [s |-> s, e |-> NonFinite, m |-> ZeroMant]
NaN == [s |-> 0, e |-> NonFinite, m |-> <<1, 0, 0, 0>>]
IsNaN(a) == a.e = NonFinite /\ a.m # ZeroMant
IsInf(a) == a.e = NonFinite /\ a.m = ZeroMant
IsZero(a) == a.e # NonFinite /\ a.m = ZeroMant
FNeg(a) == IF IsNaN(a) THEN a ELSE [a EXCEPT !.s = 1 - a.s]

\* limb k (from 0) of M, 0 beyond its ends
Limb(M, k) == IF k >= 0 /\ k < Len(M) THEN M[k + 1] ELSE 0

\* the 14 bits of M from bit r of limb q on
Window(M, q, r) ==
    IF r = 0 THEN Limb(M, q)
    ELSE (Limb(M, q) \div Pow2(r)) + (Limb(M, q + 1) % Pow2(r)) * Pow2(LimbBits - r)

\* the bits off .. off+13 of M as a number
Extract(M, off) == Window(M, off \div LimbBits, off % LimbBits)

\* M from bit off on, in four and in eight limbs (off < 0 moves M up)
Shift4(M, off) ==
    <<Extract(M, off), Extract(M, off + LimbBits),
      Extract(M, off + 2 * LimbBits), Extract(M, off + 3 * LimbBits)>>

Shift8(M, off) == Shift4(M, off) \o Shift4(M, off + 4 * LimbBits)

\* the number of bits of a limb
LimbLen(x) ==
    IF x < 128
    THEN IF x < 8 THEN (IF x < 2 THEN x ELSE IF x < 4 THEN 2 ELSE 3)
         ELSE IF x < 32 THEN (IF x < 16 THEN 4 ELSE 5)
         ELSE IF x < 64 THEN 6 ELSE 7
    ELSE IF x < 2048
    THEN IF x < 512 THEN (IF x < 256 THEN 8 ELSE 9)
         ELSE IF x < 1024 THEN 10 ELSE 11
    ELSE IF x < 8192 THEN (IF x < 4096 THEN 12 ELSE 13) ELSE 14

\* the highest non-zero limb of M at or below k (from 1), 0 if there is none
RECURSIVE TopLimb(_, _)
TopLimb(M, k) == IF k = 0 THEN 0 ELSE IF M[k] # 0 THEN k ELSE TopLimb(M, k - 1)

\* the number of bits of M, whose highest non-zero limb is t
BitsTo(M, t) == IF t = 0 THEN 0 ELSE LimbBits * (t - 1) + LimbLen(M[t])

\* the number of bits of M
BitLen(M) == BitsTo(M, TopLimb(M, Len(M)))

\* some bit of M below position p is set
AnyBelow(M, p) ==
    /\ p > 0
    /\ \/ Limb(M, p \div LimbBits) % Pow2(p % LimbBits) # 0
       \/ \E j \in 1..Len(M) : j <= p \div LimbBits /\ M[j] # 0

\* the low bits of M at exponent e that a binary64 cannot keep: those
\* beyond 53, and those below the exponent of the subnormals
DropBits(M, e) == Max(BitLen(M) - MantBits, MinExp - e)

\* round to nearest, ties to even: the n dropped bits of M, and the
\* fraction below them if sticky, round the kept ones up
RoundsUp(M, n, sticky) ==
    /\ n >= 1
    /\ Extract(M, n - 1) % 2 = 1
    /\ (sticky \/ AnyBelow(M, n - 1) \/ Extract(M, n) % 2 = 1)

\* q + c for four limbs q, the last carry left in the top limb
AddCarry(q, c) ==
    LET r1 == q[1] + c
        r2 == q[2] + (r1 \div Base)
        r3 == q[3] + (r2 \div Base)
    IN  <<r1 % Base, r2 % Base, r3 % Base, q[4] + (r3 \div Base)>>

\* the binary64 of sign s and mantissa m <= 2^53 at exponent x
Pack(s, m, x) ==
    IF m = ZeroMant THEN [s |-> s, e |-> MinExp, m |-> ZeroMant]
    ELSE IF m[4] = 2048
    THEN (IF x + 1 > MaxExp THEN Inf(s)
          ELSE [s |-> s, e |-> x + 1, m |-> <<0, 0, 0, 1024>>])
    ELSE IF x > MaxExp THEN Inf(s)
    ELSE [s |-> s, e |-> x, m |-> m]

\* M rounded at its bit n
RoundAt(s, M, e, sticky, n) ==
    Pack(s, AddCarry(Shift4(M, n), IF RoundsUp(M, n, sticky) THEN 1 ELSE 0), e + n)

\* round to nearest, ties to even: the binary64 nearest to
\* (-1)^s * (M + f) * 2^e, where 0 < f < 1 if sticky and f = 0 if not
Round(s, M, e, sticky) == RoundAt(s, M, e, sticky, DropBits(M, e))

\* float64(n) for an int n of the model
Float(n) ==
    LET a == IF n < 0 THEN -n ELSE n
    IN  Round(IF n < 0 THEN 1 ELSE 0,
              <<a % Base, (a \div Base) % Base, a \div (Base * Base)>>, 0, FALSE)

\* the product of two mantissas
MulLimbs(a, b) ==
    LET c1 == a[1] * b[1]
        c2 == a[1] * b[2] + a[2] * b[1] + (c1 \div Base)
        c3 == a[1] * b[3] + a[2] * b[2] + a[3] * b[1] + (c2 \div Base)
        c4 == a[1] * b[4] + a[2] * b[3] + a[3] * b[2] + a[4] * b[1] + (c3 \div Base)
        c5 == a[2] * b[4] + a[3] * b[3] + a[4] * b[2] + (c4 \div Base)
        c6 == a[3] * b[4] + a[4] * b[3] + (c5 \div Base)
        c7 == a[4] * b[4] + (c6 \div Base)
    IN  <<c1 % Base, c2 % Base, c3 % Base, c4 % Base, c5 % Base, c6 % Base,
          c7 % Base, c7 \div Base>>

\* a * b
FMul(a, b) ==
    IF IsNaN(a) \/ IsNaN(b) THEN NaN
    ELSE IF IsInf(a) \/ IsInf(b)
    THEN (IF IsZero(a) \/ IsZero(b) THEN NaN ELSE Inf((a.s + b.s) % 2))
    ELSE IF IsZero(a) \/ IsZero(b)
    THEN [s |-> (a.s + b.s) % 2, e |-> MinExp, m |-> ZeroMant]
    ELSE Round((a.s + b.s) % 2, MulLimbs(a.m, b.m), a.e + b.e, FALSE)

\* |a| < |b| for finite a and b
MagLess(a, b) ==
    \/ a.e < b.e
    \/ /\ a.e = b.e
       /\ \/ a.m[4] < b.m[4]
          \/ a.m[4] = b.m[4] /\ a.m[3] < b.m[3]
          \/ a.m[4] = b.m[4] /\ a.m[3] = b.m[3] /\ a.m[2] < b.m[2]
          \/ a.m[4] = b.m[4] /\ a.m[3] = b.m[3] /\ a.m[2] = b.m[2] /\ a.m[1] < b.m[1]

\* A + sg * S for eight limbs A and four limbs S, sg 1 or -1, A >= S
AddLimbs(A, S, sg) ==
    LET t1 == A[1] + sg * S[1]
        t2 == A[2] + sg * S[2] + (t1 \div Base)
        t3 == A[3] + sg * S[3] + (t2 \div Base)
        t4 == A[4] + sg * S[4] + (t3 \div Base)
        t5 == A[5] + (t4 \div Base)
        t6 == A[6] + (t5 \div Base)
        t7 == A[7] + (t6 \div Base)
        t8 == A[8] + (t7 \div Base)
    IN  <<t1 % Base, t2 % Base, t3 % Base, t4 % Base, t5 % Base, t6 % Base,
          t7 % Base, t8 % Base, t8 \div Base>>

\* big moved up by k bits, plus or minus S, rounded
AddShifted(big, k, S, sg, sticky) ==
    Round(big.s, AddLimbs(Shift8(big.m, -k), S, sg), big.e - k, sticky)

\* the sum of two finite non-zero numbers, big the one of greater
\* magnitude: small lined up with big, or, when it lies wholly below the
\* bits that decide the rounding, only its presence kept
AddOrdered(big, small) ==
    LET same == big.s = small.s
        far == big.e - small.e > MantBits + 3
    IN  IF ~same /\ big.e = small.e /\ big.m = small.m THEN PosZero
        ELSE IF far
        THEN AddShifted(big, 3, IF same THEN ZeroMant ELSE <<1, 0, 0, 0>>,
                        IF same THEN 1 ELSE -1, TRUE)
        ELSE AddShifted(big, big.e - small.e, small.m, IF same THEN 1 ELSE -1, FALSE)

\* a + b
FAdd(a, b) ==
    IF IsNaN(a) \/ IsNaN(b) THEN NaN
    ELSE IF IsInf(a) THEN (IF IsInf(b) /\ a.s # b.s THEN NaN ELSE a)
    ELSE IF IsInf(b) THEN b
    ELSE IF IsZero(a) THEN (IF IsZero(b) /\ a.s # b.s THEN PosZero ELSE b)
    ELSE IF IsZero(b) THEN a
    ELSE IF MagLess(a, b) THEN AddOrdered(b, a) ELSE AddOrdered(a, b)

\* a - b
FSub(a, b) == FAdd(a, FNeg(b))

\* a finite non-zero number with its mantissa moved up by k bits
MovedUp(a, k) == [e |-> a.e - k, m |-> Shift4(a.m, -k)]

\* a finite non-zero number with its mantissa moved up to 53 bits
Normal(a) == MovedUp(a, MantBits - BitLen(a.m))

\* R - D for four limbs each, the top limb negative if R < D
SubLimbs(R, D) ==
    LET t1 == R[1] - D[1]
        t2 == R[2] - D[2] + (t1 \div Base)
        t3 == R[3] - D[3] + (t2 \div Base)
    IN  <<t1 % Base, t2 % Base, t3 % Base, R[4] - D[4] + (t3 \div Base)>>

\* 2 * u for four limbs u
Double(u) ==
    LET v1 == 2 * u[1]
        v2 == 2 * u[2] + (v1 \div Base)
        v3 == 2 * u[3] + (v2 \div Base)
    IN  <<v1 % Base, v2 % Base, v3 % Base, 2 * u[4] + (v3 \div Base)>>

\* the quotient bit and the next remainder, T being R - D
DivBit(R, T) ==
    IF T[4] >= 0 THEN [bit |-> 1, R |-> Double(T)] ELSE [bit |-> 0, R |-> Double(R)]

\* R - D if R >= D, else R, then doubled; with the quotient bit
DivStep(R, D) == DivBit(R, SubLimbs(R, D))

\* the k+1 leading bits of the quotient of R * 2^k by D after the bits Q,
\* and whether the division is exact
RECURSIVE DivLimbs(_, _, _, _)
DivLimbs(R, D, Q, k) ==
    LET st == DivStep(R, D)
        Q2 == AddCarry(Double(Q), st.bit)
    IN  IF k = 0 \/ st.bit + Q2[1] < 0 THEN [Q |-> Q2, exact |-> st.R = ZeroMant]
        ELSE DivLimbs(st.R, D, Q2, k - 1)

\* the quotient d of two mantissas, rounded
Quotient(s, e, d) == Round(s, d.Q, e, ~d.exact)

\* x / y for finite non-zero x and y with mantissas of 53 bits
DivNormal(s, x, y) ==
    Quotient(s, x.e - y.e - (MantBits + 2),
             DivLimbs(x.m, y.m, ZeroMant, MantBits + 2))

\* a / b
FDiv(a, b) ==
    IF IsNaN(a) \/ IsNaN(b) THEN NaN
    ELSE IF IsInf(a) THEN (IF IsInf(b) THEN NaN ELSE Inf((a.s + b.s) % 2))
    ELSE IF IsInf(b) THEN [s |-> (a.s + b.s) % 2, e |-> MinExp, m |-> ZeroMant]
    ELSE IF IsZero(b) THEN (IF IsZero(a) THEN NaN ELSE Inf((a.s + b.s) % 2))
    ELSE IF IsZero(a) THEN [s |-> (a.s + b.s) % 2, e |-> MinExp, m |-> ZeroMant]
    ELSE DivNormal((a.s + b.s) % 2, Normal(a), Normal(b))

\* |f| without its fraction, as an int, for a finite f below 2^63 in
\* magnitude
Truncated(f) == Shift4(f.m, -f.e) \o <<Extract(f.m, 4 * LimbBits - f.e)>>

\* int(f) as the amd64 build converts (CVTTSD2SQ): the fraction is dropped,
\* and a NaN, an infinity and every f outside the range of int give the
\* smallest int
IntOf(f) ==
    IF f.e = NonFinite \/ BitLen(f.m) + f.e > 63 THEN MinInt64
    ELSE IF f.s = 1 THEN Neg64(Truncated(f)) ELSE Truncated(f)

-----------------------------------------------------------------------------
(* Go slices of Point3D over the backing arrays in mem *)

ZeroPoint == [X |-> PosZero, Y |-> PosZero, Z |-> PosZero]
NoSlice == [arr |-> 0, off |-> 0, len |-> 0, cap |-> 0]

\* make([]Point3D, 0, n): a fresh zeroed array of n elements
MakeSlice(m, n) ==
    [mem |-> Append(m, [k \in 1..n |-> ZeroPoint]),
     s |-> [arr |-> Len(m) + 1, off |-> 0, len |-> 0, cap |-> n]]

\* s[k] and the elements of s, read through mem
At(m, s, k) == m[s.arr][s.off + k + 1]
Elems(m, s) == [k \in 1..s.len |-> m[s.arr][s.off + k]]

\* unsafe.Sizeof(Point3D{}): three float64
ElemSize == 24

\* the allocator's size classes (runtime/sizeclasses.go) and its page size
SizeClasses ==
    <<8, 16, 24, 32, 48, 64, 80, 96, 112, 128, 144, 160, 176, 192, 208, 224,
      240, 256, 288, 320, 352, 384, 416, 448, 480, 512, 576, 640, 704, 768,
      896, 1024, 1152, 1280, 1408, 1536, 1792, 2048, 2304, 2688, 3072, 3200,
      3456, 4096, 4864, 5120, 5376, 6144, 6528, 6784, 6912, 8192, 9472, 9728,
      10240, 10880, 12288, 13568, 14336, 16384, 18432, 19072, 20480, 21760,
      24576, 27264, 28672, 32768>>
MaxSmallSize == 32768
PageSize == 8192

\* runtime.roundupsize: the bytes the allocator hands out for a request
RoundUpSize(size) ==
    IF size <= MaxSmallSize
    THEN SelectSeq(SizeClasses, LAMBDA c : c >= size)[1]
    ELSE ((size + PageSize - 1) \div PageSize) * PageSize

\* runtime.nextslicecap, its loop for a capacity of 256 or more
RECURSIVE GrowLoop(_, _)
GrowLoop(newcap, newLen) ==
    LET n == newcap + (newcap + 768) \div 4
    IN  IF n >= newLen THEN n ELSE GrowLoop(n, newLen)

\* the capacity append gives a slice of Point3D that has to grow (runtime
\* growslice): the next capacity, then what its allocation really holds
GrowCap(oldCap, newLen) ==
    LET newcap == IF newLen > 2 * oldCap THEN newLen
                  ELSE IF oldCap < 256 THEN 2 * oldCap
                  ELSE GrowLoop(oldCap, newLen)
    IN  RoundUpSize(newcap * ElemSize) \div ElemSize

\* append(s, p): in place when the capacity allows, else into a new array
AppendSlice(m, s, p) ==
    IF s.len < s.cap
    THEN [mem |-> [m EXCEPT ![s.arr][s.off + s.len + 1] = p],
          s |-> [s EXCEPT !.len = s.len + 1]]
    ELSE LET n == GrowCap(s.cap, s.len + 1)
             a == [k \in 1..n |-> IF k <= s.len THEN m[s.arr][s.off + k]
                                  ELSE IF k = s.len + 1 THEN p ELSE ZeroPoint]
         IN  [mem |-> Append(m, a),
              s |-> [arr |-> Len(m) + 1, off |-> 0, len |-> s.len + 1, cap |-> n]]

\* Mutant of DropHead: s[:len(s)-1], the newest element dropped
DropLast(s) == [s EXCEPT !.len = s.len - 1]

\* s[1:]: the same array, one element further in
DropHead(s) == [s EXCEPT !.off = s.off + 1, !.len = s.len - 1, !.cap = s.cap - 1]

-----------------------------------------------------------------------------
(* LorenzSystem, lorenz.go:20-68.  A method is an operator from the        *)
(* receiver (and mem) to the receiver after the call and the result.       *)

\* NewLorenzSystem, lines 29-41
NewLorenzSystem(m, maxTrail) ==
    LET t == MakeSlice(m, maxTrail)
    IN  [mem |-> t.mem,
         sys |-> [sigma |-> Float(10), rho |-> Float(28),
                  beta |-> FDiv(Float(8), Float(3)),
                  dt |-> FDiv(Float(1), Float(100)),
                  x |-> Float(1), y |-> Float(1), z |-> Float(1),
                  trail |-> t.s, maxTrailLength |-> maxTrail]]

\* Mutant of PushTrail: the eviction fires one element early (>= for >)
PushTrailEarly(m, l, point) ==
    LET a == AppendSlice(m, l.trail, point)
    IN  [mem |-> a.mem,
         trail |-> IF a.s.len >= l.maxTrailLength THEN DropHead(a.s) ELSE a.s]

\* Mutant of PushTrail: the eviction moves the elements down in place,
\* copy(trail, trail[1:]) and trail[:len-1], instead of reslicing
PushTrailShift(m, l, point) ==
    LET a == AppendSlice(m, l.trail, point)
        s == a.s
        moved == [a.mem EXCEPT ![s.arr] =
                     [k \in 1..Len(@) |->
                         IF k > s.off /\ k < s.off + s.len THEN @[k + 1] ELSE @[k]]]
    IN  IF s.len > l.maxTrailLength
        THEN [mem |-> moved, trail |-> [s EXCEPT !.len = s.len - 1]]
        ELSE [mem |-> a.mem, trail |-> s]

\* lines 57-60: the append and the eviction of the oldest point
PushTrail(m, l, point) ==
    LET a == AppendSlice(m, l.trail, point)
    IN  [mem |-> a.mem,
         trail |-> IF a.s.len > l.maxTrailLength THEN DropHead(a.s) ELSE a.s]

\* lines 46-48: dx, dy and dz
Dx(l) == FMul(l.sigma, FSub(l.y, l.x))
Dy(l) == FSub(FMul(l.x, FSub(l.rho, l.z)), l.y)
Dz(l) == FSub(FMul(l.x, l.y), FMul(l.beta, l.z))

\* lines 50-52: x, y and z after the Euler step, the point of line 55
NextPoint(l) ==
    [X |-> FAdd(l.x, FMul(Dx(l), l.dt)),
     Y |-> FAdd(l.y, FMul(Dy(l), l.dt)),
     Z |-> FAdd(l.z, FMul(Dz(l), l.dt))]

\* the system after Step and what Step returns (line 62), t being the
\* trail and the arrays after lines 57-60
Moved(l, point, t) ==
    [mem |-> t.mem,
     recv |-> [l EXCEPT !.x = point.X, !.y = point.Y, !.z = point.Z,
                        !.trail = t.trail],
     ret |-> point]

\* lines 55-62, point being the new position
StepTo(m, l, point) == Moved(l, point, PushTrail(m, l, point))

\* Step, lines 44-63
Step(m, l) == StepTo(m, l, NextPoint(l))

\* Mutant of GetTrail: the getter hands the trail over and clears it
GetTrailAndClear(l) == [recv |-> [l EXCEPT !.trail.len = 0], ret |-> l.trail]

\* GetTrail, lines 66-68
GetTrail(l) == [recv |-> l, ret |-> l.trail]

-----------------------------------------------------------------------------
(* Project3DTo2D, lorenz.go:71-89 *)

\* lines 77-82: the scale factors and the centre, which depend on the
\* image size alone
View(width, height) ==
    [scaleX |-> FDiv(Float(width), Float(50)),
     scaleZ |-> FDiv(Float(height), Float(60)),
     centerX |-> FDiv(Float(width), Float(2)),
     centerZ |-> FMul(Float(height), FDiv(Float(8), Float(10)))]

\* lines 85-88: the projection of p and its conversion to pixels
ProjectPoint(p, view) ==
    LET projX == FAdd(FMul(p.X, view.scaleX), view.centerX)
        projZ == FSub(view.centerZ, FMul(p.Z, view.scaleZ))
    IN  <<IntOf(projX), IntOf(projZ)>>

Project3DTo2D(p, width, height, rotationX, rotationY) ==
    ProjectPoint(p, View(width, height))

-----------------------------------------------------------------------------
(* CreateFrame, lorenz.go:92-148 *)

\* line 129-130: the palette index of the segment that ends at trail[i]:
\* uint8(float64(i)/float64(len)*254 + 1), the float product floored
\* Mutant of SegmentColor: the + 1 of line 130 is missing
SegmentColorNoOffset(idx, len) == ((254 * idx) \div len) % 256

SegmentColor(idx, len) == (((254 * idx) \div len) + 1) % 256

\* Project3DTo2D of every point of the trail, in order: what the loop of
\* lines 124-134 computes for trail[i-1] and trail[i] (line 125, 126) and
\* line 139 for the last point
ProjectTrail(m, trail, width, height) ==
    LET view == View(width, height)
    IN  SubSeq([k \in 1..trail.len |-> ProjectPoint(At(m, trail, k - 1), view)],
               1, trail.len)

\* lines 124-134 for i in lo..hi, in increasing i, on the projected points
\* pts (split in halves to keep the evaluation shallow; the first half is
\* complete before the second starts)
RECURSIVE DrawSegments(_, _, _, _)
DrawSegments(im, pts, lo, hi) ==
    IF lo > hi THEN im
    ELSE IF lo = hi
    THEN drawLine(im, pts[lo][1], pts[lo][2], pts[lo + 1][1], pts[lo + 1][2],
                  SegmentColor(lo, Len(pts)))
    ELSE LET mid == (lo + hi) \div 2
             first == DrawSegments(im, pts, lo, mid)
         IN  IF first.w = im.w THEN DrawSegments(first, pts, mid + 1, hi) ELSE first

\* strconv: the decimal digits of n >= 0, as code points
RECURSIVE Digits(_)
Digits(n) == IF n < 10 THEN <<48 + n>> ELSE Digits(n \div 10) \o <<48 + (n % 10)>>

\* fmt.Sprintf("Frame: %d", frameNum)
FrameLabel(frameNum) ==
    <<70, 114, 97, 109, 101, 58, 32>>
    \o (IF frameNum < 0 THEN <<45>> \o Digits(-frameNum) ELSE Digits(frameNum))

\* "Lorenz Attractor Animation"
TitleText ==
    <<76, 111, 114, 101, 110, 122, 32, 65, 116, 116, 114, 97, 99, 116, 111, 114,
      32, 65, 110, 105, 109, 97, 116, 105, 111, 110>>

\* Mutant of TrailTooShort: only the empty trail returns early
TrailEmpty(trail) == trail.len < 1

\* line 119: the early return on a trail too short to draw
TrailTooShort(trail) == trail.len < 2

\* v, computed on the spot.  TLC computes an argument where it is first
\* used, inside the operator it was handed to; with Ready between them the
\* stages of a frame are computed one after the other and not nested.
Ready(v) == v = v

\* lines 143-145: the two texts
Labelled(dotted, frameNum) ==
    IF Ready(dotted)
    THEN drawText(drawText(dotted, 10, 20, FrameLabel(frameNum), 200),
                  10, 35, TitleText, 150)
    ELSE dotted

\* lines 137-141: the circle at the current position, then the texts
Dotted(lined, cur, frameNum) ==
    IF Ready(lined)
    THEN Labelled(drawCircle(lined, cur[1], cur[2], 3, 255), frameNum)
    ELSE lined

\* lines 124-145 on the projected points of a trail of two points or more
DrawFrame(blank, pts, frameNum) ==
    IF Ready(pts)
    THEN Dotted(DrawSegments(blank, pts, 1, Len(pts) - 1), pts[Len(pts)], frameNum)
    ELSE blank

\* the image CreateFrame returns
CreateFrame(l, m, width, height, rotationX, rotationY, frameNum) ==
    IF TrailTooShort(GetTrail(l).ret) THEN NewPaletted(width, height)
    ELSE DrawFrame(NewPaletted(width, height),
                   ProjectTrail(m, GetTrail(l).ret, width, height), frameNum)

\* the system after CreateFrame: GetTrail (line 118) is its only use of it
CreateFrameRecv(l) == GetTrail(l).recv

-----------------------------------------------------------------------------
(* The integrator and the frame builder driven by an arbitrary caller *)

TrailCaps == 0..MaxTrail
FrameSizes == {<<0, 0>>, <<16, 40>>}
FrameNums == {0, 12}

NoCall == [op |-> "none", args |-> <<>>]
NoImage == NewPaletted(0, 0)
IdleLine == [active |-> FALSE, st |-> LineInit(Zero64, Zero64, Zero64, Zero64),
             visited |-> <<>>, c |-> 0]

RasterIdle ==
    /\ base = NoImage
    /\ line = IdleLine
    /\ glyphs = <<>>
    /\ writes = <<>>

IdleSeg == [len |-> 0, idx |-> 0, color |-> 0]

AnimIdle ==
    /\ seg = IdleSeg
    /\ pc = "none"
    /\ i = 0
    /\ frame = 0
    /\ params = [width |-> 0, height |-> 0, frames |-> 0]
    /\ images = <<>>
    /\ delays = <<>>

Init ==
    /\ \E n \in TrailCaps :
          /\ lorenz = NewLorenzSystem(<<>>, n).sys
          /\ mem = NewLorenzSystem(<<>>, n).mem
          /\ call = [op |-> "NewLorenzSystem", args |-> <<n>>]
    /\ generated = <<>>
    /\ snap = NoSlice
    /\ snapVals = <<>>
    /\ img = NoImage
    /\ RasterIdle
    /\ AnimIdle

\* a caller runs lorenz.Step()
StepCall ==
    /\ Len(generated) < MaxSteps
    /\ \E r \in {Step(mem, lorenz)} :
          /\ lorenz' = r.recv
          /\ mem' = r.mem
          /\ generated' = Append(generated, r.ret)
    /\ call' = [op |-> "Step", args |-> <<>>]
    /\ UNCHANGED <<snapVars, img, rasterVars, animVars, segVars>>

\* a caller keeps the result of lorenz.GetTrail()
GetTrailCall ==
    /\ LET r == GetTrail(lorenz)
       IN  /\ lorenz' = r.recv
           /\ snap' = r.ret
           /\ snapVals' = Elems(mem, r.ret)
    /\ call' = [op |-> "GetTrail", args |-> <<>>]
    /\ UNCHANGED <<mem, generated, img, rasterVars, animVars, segVars>>

\* a caller runs CreateFrame(lorenz, w, h, 0.0, 0.0, f)
CreateFrameCall(w, h, f) ==
    /\ lorenz' = CreateFrameRecv(lorenz)
    /\ img' = CreateFrame(lorenz, mem, w, h, PosZero, PosZero, f)
    /\ call' = [op |-> "CreateFrame", args |-> <<w, h, f>>]
    /\ UNCHANGED <<mem, generated, snapVars, rasterVars, animVars, segVars>>

Next ==
    \/ StepCall
    \/ GetTrailCall
    \/ \E sz \in FrameSizes, f \in FrameNums : CreateFrameCall(sz[1], sz[2], f)

Spec == Init /\ [][Next]_vars

-----------------------------------------------------------------------------
(* The rasterizer's primitives: one call on the image base per behaviour.   *)
(* drawLine is followed one loop iteration at a time.                      *)

RasterSizes == {<<6, 4>>}
RasterFills == {0, 9}
RasterColors == {9}
CoordRange == (-1)..MaxCoord
LineCoords == {I64(n) : n \in CoordRange}
\* a line whose horizontal extent does not fit an int
FarLines == {<<MinInt64, Zero64, Zero64, Zero64>>}
LineInputs == (LineCoords \X LineCoords \X LineCoords \X LineCoords) \cup FarLines
CircleCenters == (-3)..(MaxCoord + 3)
\* 'L', 'o', ' ' (in the table), 'F' (not in it), U+00E9 and U+20AC (not in
\* it, two and three bytes of UTF-8)
Alphabet == {76, 111, 32, 70, 233, 8364}
Texts == UNION {[1..n -> Alphabet] : n \in 0..MaxTextLen}
TextOrigins == {<<0, 0>>, <<-1, 1>>}
\* the positions the history line.visited keeps at most
MaxPath == MaxCoord + 3

SystemIdle ==
    /\ lorenz = NewLorenzSystem(<<>>, 0).sys
    /\ mem = NewLorenzSystem(<<>>, 0).mem
    /\ generated = <<>>
    /\ snap = NoSlice
    /\ snapVals = <<>>

InitRaster ==
    /\ \E sz \in RasterSizes, v \in RasterFills :
          base = [w |-> sz[1], h |-> sz[2], pix |-> [k \in 1..(sz[1] * sz[2]) |-> v]]
    /\ img = base
    /\ call = NoCall
    /\ line = IdleLine
    /\ glyphs = <<>>
    /\ writes = <<>>
    /\ SystemIdle
    /\ AnimIdle

\* drawLine(img, x1, y1, x2, y2, c) is entered: lines 152-167
DrawLineCall(x1, y1, x2, y2, c) ==
    /\ call = NoCall
    /\ line' = [active |-> TRUE, st |-> LineInit(x1, y1, x2, y2),
                visited |-> <<>>, c |-> c]
    /\ img' = base
    /\ call' = [op |-> "drawLine", args |-> <<x1, y1, x2, y2, c>>]
    /\ glyphs' = <<>>
    /\ writes' = <<>>
    /\ UNCHANGED <<sysVars, snapVars, base, animVars, segVars>>

\* one iteration of drawLine's loop: lines 170-186
DrawLineIter ==
    /\ line.active
    /\ img' = LineWrite(img, line.st, line.c)
    /\ line' = [line EXCEPT
                  !.visited = IF Len(@) < MaxPath
                              THEN Append(@, <<line.st.x1, line.st.y1>>) ELSE @,
                  !.active = ~LineAtEnd(line.st),
                  !.st = IF LineAtEnd(line.st) THEN @ ELSE LineAdvance(@)]
    /\ UNCHANGED <<sysVars, snapVars, call, base, glyphs, writes, animVars, segVars>>

\* drawCircle(img, cx, cy, r, c)
DrawCircleCall(cx, cy, r, c) ==
    /\ call = NoCall
    /\ img' = drawCircle(base, I64(cx), I64(cy), r, c)
    /\ writes' = CircleWrites(base, I64(cx), I64(cy), r)
    /\ call' = [op |-> "drawCircle", args |-> <<cx, cy, r, c>>]
    /\ glyphs' = <<>>
    /\ UNCHANGED <<sysVars, snapVars, base, line, animVars, segVars>>

\* drawText(img, x, y, text, c)
DrawTextCall(x, y, text, c) ==
    /\ call = NoCall
    /\ img' = drawText(base, x, y, text, c)
    /\ glyphs' = GlyphCalls(x, y, text)
    /\ writes' = TextWrites(base, GlyphCalls(x, y, text), 1, Len(text))
    /\ call' = [op |-> "drawText", args |-> <<x, y, text, c>>]
    /\ UNCHANGED <<sysVars, snapVars, base, line, animVars, segVars>>

NextRaster ==
    \/ \E ln \in LineInputs, c \in RasterColors :
          DrawLineCall(ln[1], ln[2], ln[3], ln[4], c)
    \/ DrawLineIter
    \/ \E cx \in CircleCenters, cy \in CircleCenters, r \in 0..MaxRadius,
          c \in RasterColors : DrawCircleCall(cx, cy, r, c)
    \/ \E o \in TextOrigins, text \in Texts, c \in RasterColors :
          DrawTextCall(o[1], o[2], text, c)

SpecRaster == InitRaster /\ [][NextRaster]_vars

-----------------------------------------------------------------------------
(* CreateLorenzAnimation, lorenz.go:306-352.  The function is sequential:  *)
(* each of its two counting loops over Step is one action.                 *)

TrailCapacity == 2000
WarmupSteps == 1000
StepsPerFrame == 10
FrameDelay == 1

AnimSizes == {<<8, 6>>}
FrameCounts == {0, 2, MaxFrames}

\* system.Step() with the result discarded, on st = [mem, sys, gen]; gen
\* keeps the history of the points
Stepped(gen, r) == [mem |-> r.mem, sys |-> r.recv, gen |-> Append(gen, r.ret)]

StepOnce(st) == Stepped(st.gen, Step(st.mem, st.sys))

\* for i := 0; i < n; i++ { system.Step() }  (split in halves to keep the
\* evaluation shallow; the first half is complete before the second starts)
RECURSIVE StepLoop(_, _)
StepRest(st, first, n) ==
    IF Len(first.gen) >= Len(st.gen) THEN StepLoop(first, n) ELSE first

StepLoop(st, n) ==
    IF n <= 0 THEN st
    ELSE IF n = 1 THEN StepOnce(st)
    ELSE StepRest(st, StepLoop(st, n \div 2), n - (n \div 2))

InitAnim ==
    /\ \E sz \in AnimSizes, n \in FrameCounts :
          params = [width |-> sz[1], height |-> sz[2], frames |-> n]
    /\ pc = "new"
    /\ i = 0
    /\ frame = 0
    /\ images = <<>>
    /\ delays = <<>>
    /\ seg = IdleSeg
    /\ call = [op |-> "CreateLorenzAnimation", args |-> <<>>]
    /\ img = NoImage
    /\ SystemIdle
    /\ RasterIdle

\* line 309
AnimNew ==
    /\ pc = "new"
    /\ \E n \in {NewLorenzSystem(mem, TrailCapacity)} :
          /\ lorenz' = n.sys
          /\ mem' = n.mem
    /\ pc' = "warmup"
    /\ UNCHANGED <<generated, snapVars, img, call, rasterVars, i, frame, params,
                   images, delays, segVars>>

\* Mutant of AnimWarmup: the warm-up loop stops one step short
AnimWarmupShort ==
    /\ pc = "warmup"
    /\ \E r \in {StepLoop([mem |-> mem, sys |-> lorenz, gen |-> generated],
                           WarmupSteps - 1)} :
          /\ lorenz' = r.sys
          /\ mem' = r.mem
          /\ generated' = r.gen
    /\ i' = WarmupSteps - 1
    /\ images' = <<>>
    /\ delays' = <<>>
    /\ frame' = 0
    /\ pc' = "frames"
    /\ UNCHANGED <<snapVars, img, call, rasterVars, params, segVars>>

\* lines 312-314, the warm-up loop; lines 316-319: the lists are nil,
\* frame := 0
AnimWarmup ==
    /\ pc = "warmup"
    /\ \E r \in {StepLoop([mem |-> mem, sys |-> lorenz, gen |-> generated],
                           WarmupSteps)} :
          /\ lorenz' = r.sys
          /\ mem' = r.mem
          /\ generated' = r.gen
    /\ i' = WarmupSteps
    /\ images' = <<>>
    /\ delays' = <<>>
    /\ frame' = 0
    /\ pc' = "frames"
    /\ UNCHANGED <<snapVars, img, call, rasterVars, params, segVars>>

\* line 319: the frame loop's test
AnimFrameTest ==
    /\ pc = "frames"
    /\ pc' = IF frame < params.frames THEN "substeps" ELSE "encode"
    /\ UNCHANGED <<sysVars, snapVars, img, call, rasterVars, i, frame, params,
                   images, delays, segVars>>

\* lines 325-327: the sub-step loop of one frame
AnimSubSteps ==
    /\ pc = "substeps"
    /\ \E r \in {StepLoop([mem |-> mem, sys |-> lorenz, gen |-> generated],
                           StepsPerFrame)} :
          /\ lorenz' = r.sys
          /\ mem' = r.mem
          /\ generated' = r.gen
    /\ i' = StepsPerFrame
    /\ pc' = "build"
    /\ UNCHANGED <<snapVars, img, call, rasterVars, frame, params, images,
                   delays, segVars>>

\* lines 330-337 and the loop's frame++
AnimBuildFrame ==
    /\ pc = "build"
    /\ lorenz' = CreateFrameRecv(lorenz)
    /\ img' = CreateFrame(lorenz, mem, params.width, params.height, PosZero,
                       PosZero, frame)
    /\ images' = Append(images, img')
    /\ delays' = Append(delays, FrameDelay)
    /\ frame' = frame + 1
    /\ pc' = "frames"
    /\ UNCHANGED <<mem, generated, snapVars, call, rasterVars, i, params, segVars>>

\* lines 341-351: the encoder, an external sink that succeeds or fails
AnimEncode ==
    /\ pc = "encode"
    /\ \E ok \in BOOLEAN : call' = [op |-> "return", args |-> <<ok>>]
    /\ pc' = "done"
    /\ UNCHANGED <<sysVars, snapVars, img, rasterVars, i, frame, params, images,
                   delays, segVars>>

NextAnim ==
    \/ AnimNew
    \/ AnimWarmup
    \/ AnimFrameTest
    \/ AnimSubSteps
    \/ AnimBuildFrame
    \/ AnimEncode

SpecAnim == InitAnim /\ [][NextAnim]_vars

-----------------------------------------------------------------------------
(* The colour of the trail's segments: the loop of lorenz.go:124-134 on a   *)
(* trail of any length, one iteration at a time                            *)

SegTrailLens == 0..MaxSegTrail

InitColor ==
    /\ \E L \in SegTrailLens : seg = [len |-> L, idx |-> 0, color |-> 0]
    /\ call = [op |-> "CreateFrame", args |-> <<>>]
    /\ img = NoImage
    /\ SystemIdle
    /\ RasterIdle
    /\ pc = "none"
    /\ i = 0
    /\ frame = 0
    /\ params = [width |-> 0, height |-> 0, frames |-> 0]
    /\ images = <<>>
    /\ delays = <<>>

\* lines 124-130: i := 1 or i++, the test i < len(trail), and the colour
SegmentIter ==
    /\ ~(seg.len < 2)
    /\ seg.idx + 1 < seg.len
    /\ seg' = [seg EXCEPT !.idx = @ + 1, !.color = SegmentColor(seg.idx + 1, seg.len)]
    /\ UNCHANGED <<sysVars, snapVars, img, call, rasterVars, animVars>>

NextColor == SegmentIter

SpecColor == InitColor /\ [][NextColor]_vars

-----------------------------------------------------------------------------
(* Properties of the trail and of the frame builder, checked under Spec *)

StepsDone == Len(generated)
TrailNow == Elems(mem, GetTrail(lorenz).ret)

\* C1: after n completed Step calls on NewLorenzSystem(N) the trail GetTrail
\* returns has exactly min(n, N) points, and never more than N.
C1_TrailLength ==
    /\ Len(TrailNow) = Min(StepsDone, lorenz.maxTrailLength)
    /\ Len(TrailNow) <= lorenz.maxTrailLength

\* a Step has just evicted: more steps than the capacity, which is not 0
C1_Witness ==
    /\ call.op = "Step"
    /\ lorenz.maxTrailLength >= 1
    /\ StepsDone > lorenz.maxTrailLength
    /\ Len(TrailNow) = lorenz.maxTrailLength

\* C2: eviction is FIFO.  After n > N steps (N >= 1) the trail is the last N
\* points Step returned, oldest first, and its first point is the
\* (n-N+1)-th point generated.
C2_Fifo ==
    (lorenz.maxTrailLength >= 1 /\ StepsDone > lorenz.maxTrailLength) =>
        /\ TrailNow = SubSeq(generated, StepsDone - lorenz.maxTrailLength + 1, StepsDone)
        /\ TrailNow[1] = generated[StepsDone - lorenz.maxTrailLength + 1]

\* several evictions from a trail of several points, all of them distinct
C2_Witness ==
    /\ lorenz.maxTrailLength >= 2
    /\ StepsDone >= lorenz.maxTrailLength + 2
    /\ \A j, k \in 1..StepsDone : j # k => generated[j] # generated[k]
    /\ TrailNow[1] = generated[StepsDone - lorenz.maxTrailLength + 1]

\* C5: CreateFrame leaves the system as it found it: the parameters, the
\* position, maxTrailLength, the trail's header and the points it holds.
C5_FrameReadOnly ==
    [][call'.op = "CreateFrame" =>
          /\ lorenz' = lorenz
          /\ mem' = mem
          /\ Elems(mem', lorenz'.trail) = Elems(mem, lorenz.trail)]_vars

\* a frame has been drawn from a trail of several points
C5_Witness ==
    /\ call.op = "CreateFrame"
    /\ lorenz.trail.len >= 2
    /\ img.w > 0
    /\ \E k \in DOMAIN img.pix : img.pix[k] # 0

\* C6: on a trail of 0 or 1 points CreateFrame returns a buffer of the
\* requested size in which every pixel is the background index 0.
C6_ShortTrailBlank ==
    (call.op = "CreateFrame" /\ lorenz.trail.len < 2) =>
        /\ img.w = call.args[1]
        /\ img.h = call.args[2]
        /\ Len(img.pix) = call.args[1] * call.args[2]
        /\ \A k \in DOMAIN img.pix : img.pix[k] = 0

\* a frame of 16 x 40 pixels built from a trail that holds exactly one point
C6_Witness ==
    /\ call.op = "CreateFrame"
    /\ lorenz.trail.len = 1
    /\ StepsDone >= 1
    /\ img.w = 16
    /\ img.h = 40

\* C10: what a caller got from GetTrail keeps its length and its points
\* whatever Step does afterwards, although it shares its backing array
\* with the live trail.
C10_SnapshotStable ==
    snap.arr # 0 =>
        /\ snap.len = Len(snapVals)
        /\ Elems(mem, snap) = snapVals

\* the live trail has since evicted and appended within the array that the
\* snapshot still points into
C10_Witness ==
    /\ snap.arr # 0
    /\ snap.len >= 2
    /\ snap.arr = lorenz.trail.arr
    /\ lorenz.trail.off > snap.off
    /\ lorenz.trail.off + lorenz.trail.len > snap.off + snap.len

-----------------------------------------------------------------------------
(* Properties of the drawing primitives, checked under SpecRaster *)

Dist(a, b) == IF a > b THEN a - b ELSE b - a
LineReturned == call.op = "drawLine" /\ ~line.active

\* C3: drawLine terminates for all integer endpoints: a loop iteration that
\* does not break changes the loop's state.  Once it has returned, the
\* positions it visited start at (x1,y1), end at (x2,y2), number
\* max(|dx|,|dy|)+1, move by at most 1 on each axis from one to the next and
\* contain no duplicate; the pixels written are exactly the visited
\* positions inside the buffer (six of them for (0,0) -> (5,0)).
C3_LineTerminates ==
    /\ (line.active /\ ~LineAtEnd(line.st)) => LineAdvance(line.st) # line.st
    /\ LineReturned =>
          LET x1 == Val64(call.args[1])
              y1 == Val64(call.args[2])
              x2 == Val64(call.args[3])
              y2 == Val64(call.args[4])
              path == [k \in 1..Len(line.visited) |->
                          <<Val64(line.visited[k][1]), Val64(line.visited[k][2])>>]
              n == Max(Dist(x1, x2), Dist(y1, y2)) + 1
          IN  /\ Len(path) = n
              /\ path[1] = <<x1, y1>>
              /\ path[n] = <<x2, y2>>
              /\ \A k \in 1..(n - 1) :
                    /\ Dist(path[k][1], path[k + 1][1]) <= 1
                    /\ Dist(path[k][2], path[k + 1][2]) <= 1
              /\ \A j, k \in 1..n : j # k => path[j] # path[k]
              /\ \A x \in 0..(img.w - 1), y \in 0..(img.h - 1) :
                    ColorIndexAt(img, x, y) =
                       IF \E k \in 1..n : path[k] = <<x, y>>
                       THEN call.args[5] ELSE ColorIndexAt(base, x, y)

\* C4: drawCircle sets to colorIndex exactly the pixels inside the buffer
\* with (x-cx)^2 + (y-cy)^2 <= r^2, leaves every other pixel as it was, and
\* hands SetColorIndex no position outside the buffer.
C4_CircleExact ==
    call.op = "drawCircle" =>
        LET cx == call.args[1]
            cy == call.args[2]
            r == call.args[3]
            c == call.args[4]
        IN  /\ img.w = base.w
            /\ img.h = base.h
            /\ \A x \in 0..(img.w - 1), y \in 0..(img.h - 1) :
                  ColorIndexAt(img, x, y) =
                     IF (x - cx) * (x - cx) + (y - cy) * (y - cy) <= r * r
                     THEN c ELSE ColorIndexAt(base, x, y)
            /\ \A k \in DOMAIN writes : InBounds(base, writes[k][1], writes[k][2])

\* a disc of radius 2 around a centre left of the buffer: part of it is
\* written, part of it is clipped, and pixels of another index remain
C4_Witness ==
    /\ call.op = "drawCircle"
    /\ call.args[1] = -1
    /\ call.args[3] = 2
    /\ Len(writes) > 0
    /\ Len(writes) < 13
    /\ \E k \in DOMAIN img.pix : img.pix[k] # call.args[4]
    /\ \E k \in DOMAIN img.pix : img.pix[k] # base.pix[k]

\* C9: drawText draws its k-th character (k from 0) at x + 6k, k counted in
\* characters whatever their encoding; a character without a bitmap is a
\* single dot at column 1, row 2 of its cell.
C9_CharPositions ==
    call.op = "drawText" =>
        LET x == call.args[1]
            y == call.args[2]
            text == call.args[3]
        IN  /\ Len(glyphs) = Len(text)
            /\ \A k \in 1..Len(text) :
                  /\ glyphs[k] = <<x + 6 * (k - 1), y, text[k]>>
                  /\ text[k] \notin KnownChars =>
                        \A q \in 1..15 :
                           Pattern(text[k])[PatternCells[q][2] + 1][PatternCells[q][1] + 1]
                              <=> PatternCells[q] = <<1, 2>>

-----------------------------------------------------------------------------
(* Properties of CreateLorenzAnimation, checked under SpecAnim *)

\* CreateFrame is about to be called for frame number `frame`
FrameDue == pc = "build"
\* CreateFrame has just returned frame number frame - 1
FrameBuilt == pc = "frames" /\ frame >= 1

\* C7: the warm-up of 1000 steps is complete before any frame is built;
\* frame k is built after exactly 1000 + 10(k+1) steps, from a trail of
\* min(1000 + 10(k+1), 2000) points; frames are appended in order of k; the
\* image list and the delay list handed to the encoder have one entry per
\* requested frame, and all delays are the same value.
C7_AnimationSchedule ==
    /\ (pc \in {"frames", "substeps", "build", "encode", "done"} \/ Len(images) > 0) =>
          StepsDone >= WarmupSteps
    /\ FrameDue =>
          /\ StepsDone = WarmupSteps + StepsPerFrame * (frame + 1)
          /\ lorenz.trail.len = Min(WarmupSteps + StepsPerFrame * (frame + 1), TrailCapacity)
          /\ Len(images) = frame
          /\ Len(delays) = frame
    /\ FrameBuilt =>
          /\ Len(images) = frame
          /\ images[frame] = img
          /\ StepsDone = WarmupSteps + StepsPerFrame * frame
    /\ pc \in {"encode", "done"} =>
          /\ Len(images) = params.frames
          /\ Len(delays) = params.frames
          /\ \A j, k \in 1..Len(delays) : delays[j] = delays[k]
          /\ \A k \in 1..Len(delays) : delays[k] = FrameDelay

\* an animation of several frames has run to its end: each frame after its
\* own sub-steps, a delay for each, and the lists complete at the encoder
C7_Witness ==
    /\ pc = "done"
    /\ params.frames >= 2
    /\ Len(images) = params.frames
    /\ Len(delays) = params.frames
    /\ StepsDone = WarmupSteps + StepsPerFrame * params.frames
    /\ lorenz.trail.len = StepsDone
    /\ images[1] # images[2]

-----------------------------------------------------------------------------
(* Properties of the segment colour, checked under SpecColor *)

\* C8 as the specification states it: for trail length L the colour index
\* of segment i (1 <= i < L) lies in (1, 255], is never 0, and does not
\* decrease as i grows.
C8_IndexAboveOne ==
    seg.idx >= 1 =>
        /\ seg.color > 1
        /\ seg.color <= 255
        /\ seg.color # 0
        /\ seg.idx >= 2 => SegmentColor(seg.idx - 1, seg.len) <= seg.color

\* C8, amended: for trail length L >= 2 the colour index of segment i
\* (1 <= i < L) lies in [1, 255], so it is never the background 0, and it
\* does not decrease as i grows; the newest segment has the index
\* 255 - ceil(254 / L), which is at least 128, and 254 whenever L >= 254.
C8_IndexFromOne ==
    seg.idx >= 1 =>
        /\ seg.color >= 1
        /\ seg.color <= 255
        /\ seg.color # 0
        /\ seg.idx >= 2 => SegmentColor(seg.idx - 1, seg.len) <= seg.color
        /\ seg.idx = seg.len - 1 =>
              /\ seg.color = 255 - ((254 + seg.len - 1) \div seg.len)
              /\ seg.color >= 128
              /\ seg.len >= 254 => seg.color = 254

\* the oldest segment of a trail of more than 254 points has got index 1
C8_Witness ==
    /\ seg.len > 254
    /\ seg.idx = 1
    /\ seg.color = 1

=============================================================================
